---- MODULE Spec2Model ----
(***************************************************************************)
(* Brand Canonizer: the extraction pipeline orchestrator (extractBrand),   *)
(* its stages' contracts (synthesize, evaluate, refine) and the API        *)
(* server's session registry with its SSE progress observers.              *)
(*                                                                         *)
(* Units: scores are in thousandths (4.5 is 4500), dimension scores in     *)
(* tenths, weights in hundredths.  The timestamps of progress events and   *)
(* log texts that carry no decision are left out of the event records.     *)
(***************************************************************************)
EXTENDS Integers, Sequences, FiniteSets, TLC

VARIABLES
  clock,            \* Date.now(), in ms
  activeSessions,   \* the server's Map sessionId -> sessionData
  runs,             \* one extractBrand call per accepted POST /api/extract
  timers,           \* pending session clean-up timeouts
  observers,        \* SSE connections of GET /api/brands/:id/status
  sched             \* the event loop's recent choices among unfinished runs

vars == <<clock, activeSessions, runs, timers, observers, sched>>

(***************************************************************************)
(* Bounds of the model                                                     *)
(***************************************************************************)
MaxRequests == 2
MaxObservers == 2
MaxMs == 1
MaxEpochs == 1
\* how often the event loop may turn from one unfinished run to another
MaxSwitches == 2

(***************************************************************************)
(* Program constants                                                       *)
(***************************************************************************)
CLEANUP_MS == 300000
REFINE_THRESHOLD == 4500
REFINE_SKIP_THRESHOLD == 4500
EXCELLENT_THRESHOLD == 4500
GOOD_THRESHOLD == 3500
ACCEPTABLE_THRESHOLD == 2500
DEFAULT_DIM_SCORE == 30

\* JavaScript's undefined and NaN, for the numbers that can be either
Undefined == -1
NaN == -2
\* a non-numeric string where a number is expected
NotANumber == -3

IsNumber(v) == v >= 0

\* a < b on JavaScript numbers: false when either side is NaN or undefined
LessThan(a, b) == IsNumber(a) /\ IsNumber(b) /\ a < b
AtLeast(a, b) == IsNumber(a) /\ IsNumber(b) /\ a >= b

\* a || b
OrElse(a, b) == IF a = Undefined \/ a = NaN \/ a = 0 THEN b ELSE a

\* x.toFixed(n) throws a TypeError unless x is a number (NaN is one)
ToFixedThrows(x) == x = Undefined \/ x = NotANumber

RECURSIVE SumSeq(_)
SumSeq(s) == IF s = <<>> THEN 0 ELSE s[1] + SumSeq(Tail(s))

IsPrefix(s, t) == Len(s) <= Len(t) /\ SubSeq(t, 1, Len(s)) = s

Msg(text, arg) == [text |-> text, arg |-> arg]

(***************************************************************************)
(* Session registry writes made by the pipeline (server side)              *)
(***************************************************************************)
stageProgress ==
  [setup |-> 5, capture |-> 25, analyze |-> 50, synthesize |-> 75,
   evaluate |-> 90, finalize |-> 100, error |-> 0]

StageProgressOf(stage) ==
  IF stage \in DOMAIN stageProgress THEN stageProgress[stage] ELSE Undefined

ProgressEvent(stage, message, percent) ==
  [stage |-> stage, message |-> message, progress_percent |-> percent,
   brand_id |-> "undefined"]

\* an onProgress that keeps only the latest event
onProgressLatestOnly(S, sessionId, stage, message) ==
  IF sessionId \in DOMAIN S
  THEN LET session == S[sessionId]
           progress == OrElse(StageProgressOf(stage), session.progress)
       IN [S EXCEPT ![sessionId] =
             [session EXCEPT !.stage = stage,
                             !.message = message,
                             !.progress = progress,
                             !.events = <<ProgressEvent(stage, message, progress)>>]]
  ELSE S

\* the onProgress callback the POST handler hands to extractBrand
onProgress(S, sessionId, stage, message) ==
  IF sessionId \in DOMAIN S
  THEN LET session == S[sessionId]
           progress == OrElse(StageProgressOf(stage), session.progress)
       IN [S EXCEPT ![sessionId] =
             [session EXCEPT !.stage = stage,
                             !.message = message,
                             !.progress = progress,
                             !.events = Append(@, ProgressEvent(stage, message, progress))]]
  ELSE S

\* A context threads the run's locals, the registry and the timers through
\* the statements executed between two awaits.
Ctx(r, S, T) == [run |-> r, sessions |-> S, timers |-> T]

\* emit(stage, message): logs on the orchestrator's logger, then onProgress
emit(c, stage, message) ==
  [c EXCEPT !.run.emitted = Append(@, [stage |-> stage, message |-> message]),
            !.sessions = onProgress(c.sessions, c.run.sessionId, stage, message)]

\* a final event that never names the brand
finalEventAnonymous(result) ==
  [stage |-> "complete",
   message |-> IF result.success
               THEN Msg("Extraction complete! Brand ID", result.brand_id)
               ELSE Msg("Extraction failed", result.error),
   progress_percent |-> 100,
   timestamp |-> clock,
   brand_id |-> "undefined"]

finalEvent(result) ==
  [stage |-> "complete",
   message |-> IF result.success
               THEN Msg("Extraction complete! Brand ID", result.brand_id)
               ELSE Msg("Extraction failed", result.error),
   progress_percent |-> 100,
   timestamp |-> clock,
   brand_id |-> IF result.success THEN result.brand_id ELSE "undefined"]

\* a .then handler that schedules the clean-up only for a successful result
thenHandlerKeepsFailures(c, result) ==
  LET sid == c.run.sessionId
      r2 == [c.run EXCEPT !.pc = "done", !.result = result]
  IN IF sid \in DOMAIN c.sessions
     THEN [run |-> r2,
           sessions |-> [c.sessions EXCEPT ![sid] =
              [@ EXCEPT !.status = IF result.success THEN "completed" ELSE "failed",
                        !.progress = 100,
                        !.result = result,
                        !.events = Append(@, finalEvent(result))]],
           timers |-> IF result.success
                      THEN c.timers \cup
                           {[sessionId |-> sid, due |-> clock + CLEANUP_MS, run |-> c.run.id]}
                      ELSE c.timers]
     ELSE [c EXCEPT !.run = r2]

\* the .then handler of the POST route: runs when extractBrand has returned
thenHandler(c, result) ==
  LET sid == c.run.sessionId
      r2 == [c.run EXCEPT !.pc = "done", !.result = result]
  IN IF sid \in DOMAIN c.sessions
     THEN [run |-> r2,
           sessions |-> [c.sessions EXCEPT ![sid] =
              [@ EXCEPT !.status = IF result.success THEN "completed" ELSE "failed",
                        !.progress = 100,
                        !.result = result,
                        !.events = Append(@, finalEvent(result))]],
           timers |-> c.timers \cup
              {[sessionId |-> sid, due |-> clock + CLEANUP_MS, run |-> c.run.id]}]
     ELSE [c EXCEPT !.run = r2]

\* a failure result that also hands back the document built so far
FailureResultWithSpec(errorMessage) ==
  [success |-> FALSE, error |-> errorMessage, brand_spec |-> "partial"]

FailureResult(errorMessage) == [success |-> FALSE, error |-> errorMessage]

\* a catch block that rethrows: extractBrand rejects and the .catch handler
\* of the POST route marks the session failed
catchBlockRethrowing(c, errorMessage) ==
  LET sid == c.run.sessionId
      r2 == [c.run EXCEPT !.pc = "done", !.result = FailureResult(errorMessage)]
  IN IF sid \in DOMAIN c.sessions
     THEN [run |-> r2,
           sessions |-> [c.sessions EXCEPT ![sid] =
              [@ EXCEPT !.status = "failed",
                        !.events = Append(@, ProgressEvent("error", Msg("Error", errorMessage),
                                                           c.sessions[sid].progress))]],
           timers |-> c.timers]
     ELSE [c EXCEPT !.run = r2]

\* the catch block of extractBrand, followed by the return's .then handler
catchBlock(c, errorMessage) ==
  thenHandler(emit(c, "error", Msg("Extraction failed", errorMessage)),
              FailureResult(errorMessage))

\* the thrown message without the stage's own error
StageFailedMessageBare(label, stageResult) == label

StageFailedMessage(label, stageResult) ==
  label \o ": " \o
    (IF Len(stageResult.errors) > 0 THEN stageResult.errors[1].message ELSE "undefined")

\* The event loop resumes run t: a turn away from another unfinished run
\* is counted against MaxSwitches.
Unfinished(t) == t \in 1..Len(runs) /\ runs[t].pc # "done"
IsSwitch(t) == sched.last # t /\ Unfinished(sched.last)
MayResume(t) == IsSwitch(t) => sched.switches < MaxSwitches
Resumed(t, pcAfter) ==
  [last |-> IF pcAfter = "done" THEN 0 ELSE t,
   switches |-> IF IsSwitch(t) THEN sched.switches + 1 ELSE sched.switches]

Commit(c, t) ==
  /\ MayResume(t)
  /\ runs' = [runs EXCEPT ![t] = c.run]
  /\ activeSessions' = c.sessions
  /\ timers' = c.timers
  /\ sched' = Resumed(t, c.run.pc)

(***************************************************************************)
(* Schema validation and the Synthesize repair pass                        *)
(***************************************************************************)
\* A brand specification document: who produced it and which classes of
\* schema violation it has.  "component_required" is a component that lacks
\* visual_properties, category or description; "other" is any other violation.
BrandSpecDoc(source, brandId, errs) ==
  [source |-> source, brand_id |-> brandId, errs |-> errs]

\* no document (undefined data, a file not yet written)
NoDoc == BrandSpecDoc("none", "undefined", {})

validateBrandSpec(doc) == [valid |-> doc.errs = {}, errors |-> doc.errs]

fixValidationIssues(doc, errors) ==
  IF "component_required" \in errors
  THEN [doc EXCEPT !.errs = @ \ {"component_required"}]
  ELSE doc

\* synthesizeBrandSpec reporting nothing when the first validation fails
synthesizeBrandSpecSilent(brandId, brandTokens, saveFails, duration, errorMessage) ==
  LET brandSpec == BrandSpecDoc("synthesize", brandId, brandTokens.specErrs)
      fixed == fixValidationIssues(brandSpec, validateBrandSpec(brandSpec).errors)
      logs == <<"Validating brand spec against JSON schema">>
  IN IF saveFails
     THEN [status |-> "failed", duration_ms |-> duration, logs |-> logs,
           errors |-> <<[code |-> "SYNTHESIS_ERROR", message |-> errorMessage]>>,
           warnings |-> brandTokens.warnings, data |-> NoDoc, saved |-> NoDoc,
           validations |-> 1]
     ELSE [status |-> IF Len(brandTokens.warnings) > 0 THEN "warning" ELSE "success",
           duration_ms |-> duration, logs |-> logs, errors |-> <<>>,
           warnings |-> brandTokens.warnings, data |-> fixed, saved |-> fixed,
           validations |-> 1]

\* synthesizeBrandSpec failing the stage when the repair pass leaves violations
synthesizeBrandSpecStrict(brandId, brandTokens, saveFails, duration, errorMessage) ==
  LET brandSpec == BrandSpecDoc("synthesize", brandId, brandTokens.specErrs)
      validation == validateBrandSpec(brandSpec)
      warnings == brandTokens.warnings \o
                  (IF validation.valid THEN <<>> ELSE <<"Schema validation issues">>)
      fixed == IF validation.valid THEN brandSpec
               ELSE fixValidationIssues(brandSpec, validation.errors)
      logs == <<"Validating brand spec against JSON schema">>
  IN IF saveFails \/ ~validateBrandSpec(fixed).valid
     THEN [status |-> "failed", duration_ms |-> duration, logs |-> logs,
           errors |-> <<[code |-> "SYNTHESIS_ERROR", message |-> errorMessage]>>,
           warnings |-> warnings, data |-> NoDoc, saved |-> NoDoc,
           validations |-> 2]
     ELSE [status |-> IF Len(warnings) > 0 THEN "warning" ELSE "success",
           duration_ms |-> duration, logs |-> logs, errors |-> <<>>,
           warnings |-> warnings, data |-> fixed, saved |-> fixed,
           validations |-> 2]

\* synthesizeBrandSpec repairing and validating once more when the first
\* repair left violations
synthesizeBrandSpecTwoPasses(brandId, brandTokens, saveFails, duration, errorMessage) ==
  LET brandSpec == BrandSpecDoc("synthesize", brandId, brandTokens.specErrs)
      validation == validateBrandSpec(brandSpec)
      warnings == brandTokens.warnings \o
                  (IF validation.valid THEN <<>> ELSE <<"Schema validation issues">>)
      fixed == IF validation.valid THEN brandSpec
               ELSE fixValidationIssues(brandSpec, validation.errors)
      revalidation == validateBrandSpec(fixed)
      fixedAgain == IF revalidation.valid THEN fixed
                    ELSE fixValidationIssues(fixed, revalidation.errors)
      validations == IF validation.valid THEN 1
                     ELSE IF revalidation.valid THEN 2 ELSE 3
      logs == <<"Validating brand spec against JSON schema">> \o
              (IF validation.valid THEN <<"Brand spec passes schema validation">>
               ELSE <<"Schema validation failed", "Attempting to fix validation issues">> \o
                    (IF revalidation.valid THEN <<"Validation issues fixed">>
                     ELSE <<"Could not fix all validation issues">>))
  IN IF saveFails
     THEN [status |-> "failed", duration_ms |-> duration, logs |-> logs,
           errors |-> <<[code |-> "SYNTHESIS_ERROR", message |-> errorMessage]>>,
           warnings |-> warnings, data |-> NoDoc, saved |-> NoDoc,
           validations |-> validations]
     ELSE [status |-> IF Len(warnings) > 0 THEN "warning" ELSE "success",
           duration_ms |-> duration, logs |-> logs, errors |-> <<>>,
           warnings |-> warnings, data |-> fixedAgain, saved |-> fixedAgain,
           validations |-> validations]

\* synthesizeBrandSpec warning only of the violations the repair left
synthesizeBrandSpecForgiving(brandId, brandTokens, saveFails, duration, errorMessage) ==
  LET brandSpec == BrandSpecDoc("synthesize", brandId, brandTokens.specErrs)
      validation == validateBrandSpec(brandSpec)
      fixed == IF validation.valid THEN brandSpec
               ELSE fixValidationIssues(brandSpec, validation.errors)
      revalidation == validateBrandSpec(fixed)
      warnings == brandTokens.warnings \o
                  (IF revalidation.valid THEN <<>> ELSE <<"Schema validation issues">>)
      validations == IF validation.valid THEN 1 ELSE 2
      logs == <<"Validating brand spec against JSON schema">> \o
              (IF validation.valid THEN <<"Brand spec passes schema validation">>
               ELSE <<"Schema validation failed", "Attempting to fix validation issues">> \o
                    (IF revalidation.valid THEN <<"Validation issues fixed">>
                     ELSE <<"Could not fix all validation issues">>))
  IN IF saveFails
     THEN [status |-> "failed", duration_ms |-> duration, logs |-> logs,
           errors |-> <<[code |-> "SYNTHESIS_ERROR", message |-> errorMessage]>>,
           warnings |-> warnings, data |-> NoDoc, saved |-> NoDoc,
           validations |-> validations]
     ELSE [status |-> IF Len(warnings) > 0 THEN "warning" ELSE "success",
           duration_ms |-> duration, logs |-> logs, errors |-> <<>>,
           warnings |-> warnings, data |-> fixed, saved |-> fixed,
           validations |-> validations]

\* synthesizeBrandSpec: the outcome of one call on brand tokens whose
\* synthesized document has the violations brandTokens.specErrs and whose
\* conversion pushes the warnings brandTokens.warnings (missing color or
\* typography data); saveFails is the file write throwing.  `validations`
\* counts the calls of validateBrandSpec the call made.
synthesizeBrandSpec(brandId, brandTokens, saveFails, duration, errorMessage) ==
  LET brandSpec == BrandSpecDoc("synthesize", brandId, brandTokens.specErrs)
      validation == validateBrandSpec(brandSpec)
      warnings == brandTokens.warnings \o
                  (IF validation.valid THEN <<>> ELSE <<"Schema validation issues">>)
      fixed == IF validation.valid THEN brandSpec
               ELSE fixValidationIssues(brandSpec, validation.errors)
      revalidation == validateBrandSpec(fixed)
      validations == IF validation.valid THEN 1 ELSE 2
      logs == <<"Validating brand spec against JSON schema">> \o
              (IF validation.valid THEN <<"Brand spec passes schema validation">>
               ELSE <<"Schema validation failed", "Attempting to fix validation issues">> \o
                    (IF revalidation.valid THEN <<"Validation issues fixed">>
                     ELSE <<"Could not fix all validation issues">>))
  IN IF saveFails
     THEN [status |-> "failed", duration_ms |-> duration, logs |-> logs,
           errors |-> <<[code |-> "SYNTHESIS_ERROR", message |-> errorMessage]>>,
           warnings |-> warnings, data |-> NoDoc, saved |-> NoDoc,
           validations |-> validations]
     ELSE [status |-> IF Len(warnings) > 0 THEN "warning" ELSE "success",
           duration_ms |-> duration, logs |-> logs, errors |-> <<>>,
           warnings |-> warnings, data |-> fixed, saved |-> fixed,
           validations |-> validations]

(***************************************************************************)
(* Evaluate                                                                *)
(***************************************************************************)
DimensionNames ==
  <<"brand_fidelity", "completeness", "parseability", "actionability",
    "accessibility", "insight_depth">>

requiredDimensionWeight ==
  [brand_fidelity |-> 40, completeness |-> 20, parseability |-> 15,
   actionability |-> 15, accessibility |-> 5, insight_depth |-> 5]

\* the bands with every threshold excluded from its band
getQualityBandExclusive(score) ==
  IF IsNumber(score) /\ score > EXCELLENT_THRESHOLD THEN "excellent"
  ELSE IF IsNumber(score) /\ score > GOOD_THRESHOLD THEN "good"
  ELSE IF IsNumber(score) /\ score > ACCEPTABLE_THRESHOLD THEN "acceptable"
  ELSE "poor"

\* getQualityBand (evaluate.js and its copy in the report generator)
getQualityBand(score) ==
  IF AtLeast(score, EXCELLENT_THRESHOLD) THEN "excellent"
  ELSE IF AtLeast(score, GOOD_THRESHOLD) THEN "good"
  ELSE IF AtLeast(score, ACCEPTABLE_THRESHOLD) THEN "acceptable"
  ELSE "poor"

\* the schema violations of an evaluation, in the validator's report order
validateEvaluation(evaluation) ==
  LET errors ==
        (IF IsNumber(evaluation.overall_score) THEN <<>> ELSE <<"overall_score">>) \o
        (IF Len(evaluation.dimensions) < Len(DimensionNames) THEN <<"minItems">> ELSE <<>>)
  IN [valid |-> errors = <<>>, errors |-> errors]

HasDimension(dimensions, name) == \E i \in 1..Len(dimensions) : dimensions[i].name = name

RECURSIVE AddMissingDimensions(_, _)
AddMissingDimensions(dimensions, k) ==
  IF k > Len(DimensionNames) THEN dimensions
  ELSE AddMissingDimensions(
         IF HasDimension(dimensions, DimensionNames[k]) THEN dimensions
         ELSE Append(dimensions,
                [name |-> DimensionNames[k], score |-> DEFAULT_DIM_SCORE,
                 weight |-> requiredDimensionWeight[DimensionNames[k]]]),
         k + 1)

\* the weighted sum, in thousandths; exact for the dimension scores drawn below
WeightedSum(dimensions) ==
  SumSeq([i \in 1..Len(dimensions) |-> dimensions[i].score * dimensions[i].weight])

RECURSIVE fixEvaluationIssues(_, _)
fixEvaluationIssues(evaluation, errors) ==
  IF errors = <<>> THEN evaluation
  ELSE LET e1 == IF Head(errors) = "minItems"
                 THEN [evaluation EXCEPT !.dimensions = AddMissingDimensions(@, 1)]
                 ELSE evaluation
           e2 == IF OrElse(e1.overall_score, Undefined) = Undefined
                 THEN [e1 EXCEPT !.overall_score = WeightedSum(e1.dimensions)]
                 ELSE e1
       IN fixEvaluationIssues(e2, Tail(errors))

\* the `data` of a successful evaluateBrandSpec call on the adapter's payload
BuildEvaluation(brandId, evaluationData) ==
  LET evaluation == [brand_id |-> brandId,
                     overall_score |-> evaluationData.overall_score,
                     quality_band |-> getQualityBand(evaluationData.overall_score),
                     dimensions |-> evaluationData.dimensions]
      validation == validateEvaluation(evaluation)
  IN IF validation.valid THEN evaluation
     ELSE fixEvaluationIssues(evaluation, validation.errors)

(***************************************************************************)
(* Refine                                                                  *)
(***************************************************************************)
NoUsage == [tokens_input |-> 0, tokens_output |-> 0]

\* refineBrandSpec without the validation gate: a document reply is saved and
\* returned whatever its violations
refineBrandSpecUnvalidated(brandSpec, evaluation, reply, save, saveMessage, duration, fileBefore) ==
  LET refinedSpec == BrandSpecDoc("refine", brandSpec.brand_id,
                                  IF reply.kind = "document" THEN reply.errs ELSE {})
      usage == IF reply.kind = "api_error" THEN NoUsage ELSE reply.usage
  IN IF AtLeast(evaluation.overall_score, REFINE_SKIP_THRESHOLD)
     THEN [status |-> "skipped", duration_ms |-> duration, errors |-> <<>>,
           metrics |-> NoUsage @@ [api_calls |-> 0, improvements_made |-> 0],
           data |-> brandSpec, saved |-> fileBefore]
     ELSE IF reply.kind = "document" /\ save = "ok"
     THEN [status |-> "success", duration_ms |-> duration, errors |-> <<>>,
           metrics |-> usage @@ [api_calls |-> 1, improvements_made |-> 1],
           data |-> refinedSpec, saved |-> refinedSpec]
     ELSE [status |-> "failed", duration_ms |-> duration,
           errors |-> <<[code |-> "REFINEMENT_ERROR", message |-> saveMessage]>>,
           metrics |-> usage @@ [api_calls |-> 1, improvements_made |-> 0],
           data |-> brandSpec, saved |-> fileBefore]

\* refineBrandSpec: `reply` is what the refinement call did:
\*   kind "api_error"  the call threw (no usage recorded)
\*   kind "bad_reply"  the reply held no JSON document
\*   kind "document"   the reply held a document with violations reply.errs
\* and `save` what writing the refined brand_spec.json did: "ok", "write_throws"
\* (file untouched) or "size_throws" (file written, getFileSize threw).
refineBrandSpec(brandSpec, evaluation, reply, save, saveMessage, duration, fileBefore) ==
  IF AtLeast(evaluation.overall_score, REFINE_SKIP_THRESHOLD)
  THEN [status |-> "skipped", duration_ms |-> duration, errors |-> <<>>,
        metrics |-> NoUsage @@ [api_calls |-> 0, improvements_made |-> 0],
        data |-> brandSpec, saved |-> fileBefore]
  ELSE
  LET failed(code, message, usage, file) ==
        [status |-> "failed", duration_ms |-> duration,
         errors |-> <<[code |-> code, message |-> message]>>,
         metrics |-> usage @@ [api_calls |-> 1, improvements_made |-> 0],
         data |-> brandSpec, saved |-> file]
  IN CASE reply.kind = "api_error" ->
            failed("REFINEMENT_ERROR", reply.message, NoUsage, fileBefore)
       [] reply.kind = "bad_reply" ->
            failed("REFINEMENT_ERROR", reply.message, reply.usage, fileBefore)
       [] OTHER ->
            LET refinedSpec == BrandSpecDoc("refine", brandSpec.brand_id, reply.errs)
                validation == validateBrandSpec(refinedSpec)
            IN IF ~validation.valid
               THEN failed("VALIDATION_FAILED", "Refined specification failed validation",
                           reply.usage, fileBefore)
               ELSE IF save = "write_throws"
               THEN failed("REFINEMENT_ERROR", saveMessage, reply.usage, fileBefore)
               ELSE IF save = "size_throws"
               THEN failed("REFINEMENT_ERROR", saveMessage, reply.usage, refinedSpec)
               ELSE [status |-> "success", duration_ms |-> duration, errors |-> <<>>,
                     metrics |-> reply.usage @@ [api_calls |-> 1, improvements_made |-> 1],
                     data |-> refinedSpec, saved |-> refinedSpec]

(***************************************************************************)
(* What the external collaborators can return.  E is a record of the       *)
(* ranges the adapters' outputs are drawn from.                            *)
(***************************************************************************)
StageError(code, message) == <<[code |-> code, message |-> message]>>

\* captureWebsite
CaptureResults(E) ==
  {[status |-> "success", duration_ms |-> d, errors |-> <<>>] : d \in E.durations}
  \cup
  {[status |-> "failed", duration_ms |-> d, errors |-> StageError("CAPTURE_ERROR", m)] :
     d \in E.durations, m \in E.errorMessages}

\* the brand tokens of an analysis, by what Synthesize will make of them
BrandTokens(E) ==
  {[specErrs |-> e, warnings |-> w] : e \in E.specErrs, w \in E.tokenWarnings}

NoTokens == [specErrs |-> {}, warnings |-> <<>>]

\* analyzeWithClaude
AnalyzeResults(E) ==
  {[status |-> "success", duration_ms |-> d, errors |-> <<>>, metrics |-> u, data |-> bt] :
     d \in E.durations, u \in E.usages, bt \in BrandTokens(E)}
  \cup
  {[status |-> "failed", duration_ms |-> d, errors |-> StageError("ANALYSIS_ERROR", m),
    metrics |-> u, data |-> NoTokens] :
     d \in E.durations, m \in E.errorMessages, u \in E.failureUsages}

SynthesizeResults(E, brandId, brandTokens) ==
  {synthesizeBrandSpec(brandId, brandTokens, sf, d, m) :
     sf \in BOOLEAN, d \in E.durations, m \in E.errorMessages}

NoEvaluation ==
  [brand_id |-> "undefined", overall_score |-> Undefined, quality_band |-> "undefined",
   dimensions |-> <<>>]

\* evaluateBrandSpec
EvaluateResults(E, brandId) ==
  {[status |-> "success", duration_ms |-> d, errors |-> <<>>, metrics |-> u,
    data |-> BuildEvaluation(brandId, ed)] :
     d \in E.durations, u \in E.usages, ed \in E.evaluationData}
  \cup
  {[status |-> "failed", duration_ms |-> d, errors |-> StageError("EVALUATION_ERROR", m),
    metrics |-> u, data |-> NoEvaluation] :
     d \in E.durations, m \in E.errorMessages, u \in E.failureUsages}

RefineReplies(E) ==
  {[kind |-> "api_error", message |-> m] : m \in E.errorMessages}
  \cup {[kind |-> "bad_reply", message |-> m, usage |-> u] :
          m \in E.errorMessages, u \in E.usages}
  \cup {[kind |-> "document", errs |-> e, usage |-> u] :
          e \in E.refinedErrs, u \in E.usages}

RefineResults(E, brandSpec, evaluation, fileBefore) ==
  {refineBrandSpec(brandSpec, evaluation, reply, save, m, d, fileBefore) :
     reply \in RefineReplies(E), save \in E.refineSaves,
     m \in E.errorMessages, d \in E.durations}

(***************************************************************************)
(* extractBrand, one action per stretch of code between two awaits.  A     *)
(* return is followed at once by the POST route's .then handler (a         *)
(* microtask: nothing else runs in between).                               *)
(***************************************************************************)
BrandIds == <<"brand_a", "brand_b", "brand_c", "brand_d">>

NoStage == [status |-> "undefined"]
NoSummary == [status |-> "undefined"]
NoResult == [success |-> FALSE, error |-> "null"]

NewRun(id, sessionId) ==
  [id |-> id, sessionId |-> sessionId, brand_id |-> BrandIds[id], pc |-> "setup",
   emitted |-> <<>>, stages |-> <<>>, summary |-> NoSummary,
   analyzeResult |-> NoStage, synthesizeResult |-> NoStage,
   evaluateResult |-> NoStage, refineResult |-> NoStage,
   finalBrandSpec |-> NoDoc, brandSpecFile |-> NoDoc, result |-> NoResult]

\* the entry pushed on executionTrace.stages for a stage result
TraceEntry(name, res) ==
  [name |-> name, status |-> res.status, duration_ms |-> res.duration_ms,
   errors |-> res.errors] @@
  (IF "metrics" \in DOMAIN res THEN [metrics |-> res.metrics] ELSE <<>>)

SkippedRefineEntry ==
  [name |-> "refine", status |-> "skipped", duration_ms |-> 0, errors |-> <<>>,
   metrics |-> NoUsage @@ [improvements_made |-> 0]]

\* a stage check that never aborts
StageAbortsNever(res) == FALSE

\* `if (result.status === 'failed') throw ...` after capture, analyze,
\* synthesize and evaluate
StageAborts(res) == res.status = "failed"

\* the refinement test with the boundary on the wrong side
NeedsRefinementInclusive(score) == IsNumber(score) /\ score <= REFINE_THRESHOLD

\* `if (evaluateResult.data.overall_score < 4.5)`
NeedsRefinement(score) == LessThan(score, REFINE_THRESHOLD)

\* the trace taking a new entry at its front
PushStageFirst(c, entry) == [c EXCEPT !.run.stages = <<entry>> \o @]

\* executionTrace.stages.push(...)
PushStage(c, entry) == [c EXCEPT !.run.stages = Append(@, entry)]
At(c, pc) == [c EXCEPT !.run.pc = pc]

TokensOf(res) ==
  IF "metrics" \in DOMAIN res
  THEN OrElse(res.metrics.tokens_input, 0) + OrElse(res.metrics.tokens_output, 0)
  ELSE 0

\* the summary leaving out the tokens of a refinement that did not succeed
beginFinalizeSuccessfulOnly(c) ==
  LET r == c.run
      totalTokens == TokensOf(r.analyzeResult) + TokensOf(r.evaluateResult)
                     + (IF r.refineResult.status = "success"
                        THEN TokensOf(r.refineResult) ELSE 0)
      summary == [status |-> "success", total_tokens |-> totalTokens,
                  warnings |-> r.synthesizeResult.warnings, errors |-> <<>>]
  IN At(emit([c EXCEPT !.run.summary = summary],
             "finalize", Msg("Saving execution trace...", "")),
        "finalize")

\* "Finalize execution trace" up to the await of saveJSON(executionTrace)
beginFinalize(c) ==
  LET r == c.run
      totalTokens == TokensOf(r.analyzeResult) + TokensOf(r.evaluateResult)
                     + TokensOf(r.refineResult)
      summary == [status |-> "success", total_tokens |-> totalTokens,
                  warnings |-> r.synthesizeResult.warnings, errors |-> <<>>]
  IN At(emit([c EXCEPT !.run.summary = summary],
             "finalize", Msg("Saving execution trace...", "")),
        "finalize")

\* the orchestrator treating a failed refinement like any other failed stage
afterRefineAborting(c, res) ==
  IF StageAborts(res)
  THEN catchBlock(c, StageFailedMessage("Refinement stage failed", res))
  ELSE beginFinalize(
         IF res.status = "success"
         THEN emit([c EXCEPT !.run.finalBrandSpec = res.data],
                   "refine", Msg("Refinement complete", ""))
         ELSE emit(c, "refine", Msg("Refinement skipped - score is excellent", "")))

\* what extractBrand does with the refinement result, up to the next await
afterRefine(c, res) ==
  beginFinalize(
    IF res.status = "success"
    THEN emit([c EXCEPT !.run.finalBrandSpec = res.data],
              "refine", Msg("Refinement complete", ""))
    ELSE IF res.status = "skipped"
    THEN emit(c, "refine", Msg("Refinement skipped - score is excellent", ""))
    ELSE emit(c, "refine", Msg("Refinement failed - using original specification", "")))

SuccessResult(r) ==
  [success |-> TRUE, brand_id |-> r.brand_id, brand_spec |-> r.finalBrandSpec,
   evaluation |-> r.evaluateResult.data,
   refinement |-> r.refineResult,
   execution_trace |-> [brand_id |-> r.brand_id, stages |-> r.stages,
                        summary |-> r.summary]]

Start(t) == Ctx(runs[t], activeSessions, timers)

\* POST /api/extract: creates the session and runs extractBrand up to its
\* first await.  `request` is the identity of the sessionData object: the
\* request that created it.
PostExtract ==
  /\ Len(runs) < MaxRequests
  /\ LET id == Len(runs) + 1
         sessionId == clock
         sessionData == [status |-> "processing", progress |-> 0, stage |-> "setup",
                         message |-> Msg("Initializing extraction...", ""),
                         events |-> <<>>, result |-> NoResult, request |-> id]
         S == [k \in DOMAIN activeSessions \cup {sessionId} |->
                 IF k = sessionId THEN sessionData ELSE activeSessions[k]]
         c == emit(Ctx(NewRun(id, sessionId), S, timers),
                   "setup", Msg("Creating brand directories for", BrandIds[id]))
     IN /\ MayResume(id)
        /\ runs' = Append(runs, c.run)
        /\ activeSessions' = c.sessions
        /\ sched' = Resumed(id, c.run.pc)
  /\ UNCHANGED <<clock, timers, observers>>

\* createBrandDirectories returned or threw
SetupDone(t, E) ==
  /\ runs[t].pc = "setup"
  /\ \/ Commit(At(emit(Start(t), "capture",
                       Msg("Launching browser and capturing website...", "")),
                  "capture"), t)
     \/ \E m \in E.errorMessages : Commit(catchBlock(Start(t), m), t)
  /\ UNCHANGED <<clock, observers>>

CaptureDone(t, E) ==
  /\ runs[t].pc = "capture"
  /\ \/ \E res \in CaptureResults(E) :
          LET c1 == PushStage(Start(t), TraceEntry("capture", res))
          IN IF StageAborts(res)
             THEN Commit(catchBlock(c1, StageFailedMessage("Capture stage failed", res)), t)
             ELSE Commit(At(emit(emit(c1, "capture", Msg("Captured artifacts", "")),
                                 "analyze",
                                 Msg("Analyzing screenshots with Claude Vision API...", "")),
                            "analyze"), t)
     \/ \* captureWebsite rejected (browser.close() threw in its catch block)
        \E m \in E.errorMessages : Commit(catchBlock(Start(t), m), t)
  /\ UNCHANGED <<clock, observers>>

AnalyzeDone(t, E) ==
  /\ runs[t].pc = "analyze"
  /\ \E res \in AnalyzeResults(E) :
       LET c1 == PushStage([Start(t) EXCEPT !.run.analyzeResult = res],
                           TraceEntry("analyze", res))
       IN IF StageAborts(res)
          THEN Commit(catchBlock(c1, StageFailedMessage("Analysis stage failed", res)), t)
          ELSE Commit(At(emit(emit(c1, "analyze", Msg("Analysis complete", "")),
                              "synthesize", Msg("Synthesizing brand specification...", "")),
                         "synthesize"), t)
  /\ UNCHANGED <<clock, observers>>

SynthesizeDone(t, E) ==
  /\ runs[t].pc = "synthesize"
  /\ \E res \in SynthesizeResults(E, runs[t].brand_id, runs[t].analyzeResult.data) :
       LET c1 == PushStage([Start(t) EXCEPT !.run.synthesizeResult = res,
                                            !.run.brandSpecFile = res.saved],
                           TraceEntry("synthesize", res))
       IN IF StageAborts(res)
          THEN Commit(catchBlock(c1, StageFailedMessage("Synthesis stage failed", res)), t)
          ELSE Commit(At(emit(emit(c1, "synthesize",
                                   IF Len(res.warnings) > 0
                                   THEN Msg("Synthesis complete with warnings", "")
                                   ELSE Msg("Brand specification synthesized and validated", "")),
                              "evaluate", Msg("Evaluating brand specification quality...", "")),
                         "evaluate"), t)
  /\ UNCHANGED <<clock, observers>>

EvaluateDone(t, E) ==
  /\ runs[t].pc = "evaluate"
  /\ \E res \in EvaluateResults(E, runs[t].synthesizeResult.data.brand_id) :
       LET c1 == PushStage([Start(t) EXCEPT !.run.evaluateResult = res],
                           TraceEntry("evaluate", res))
           score == res.data.overall_score
       IN IF StageAborts(res)
          THEN Commit(catchBlock(c1, StageFailedMessage("Evaluation stage failed", res)), t)
          ELSE IF ToFixedThrows(score)
          THEN Commit(catchBlock(c1, "Cannot read properties of undefined (reading 'toFixed')"), t)
          ELSE LET c2 == [emit(c1, "evaluate", Msg("Evaluation complete - Overall score", ""))
                            EXCEPT !.run.finalBrandSpec = c1.run.synthesizeResult.data]
               IN IF NeedsRefinement(score)
                  THEN Commit(At(emit(c2, "refine",
                                      Msg("Refining specification based on feedback", "")),
                                 "refine"), t)
                  ELSE Commit(beginFinalize(
                                PushStage(emit(c2, "refine",
                                               Msg("Refinement skipped - score is excellent (>=4.5)", "")),
                                          SkippedRefineEntry)), t)
  /\ UNCHANGED <<clock, observers>>

RefineDone(t, E) ==
  /\ runs[t].pc = "refine"
  /\ \E res \in RefineResults(E, runs[t].synthesizeResult.data,
                              runs[t].evaluateResult.data, runs[t].brandSpecFile) :
       Commit(afterRefine(PushStage([Start(t) EXCEPT !.run.refineResult = res,
                                                     !.run.brandSpecFile = res.saved],
                                    TraceEntry("refine", res)),
                          res), t)
  /\ UNCHANGED <<clock, observers>>

\* saving and validating the execution trace and the metadata
FinalizeDone(t, E) ==
  /\ runs[t].pc = "finalize"
  /\ \/ LET c1 == emit(Start(t), "finalize", Msg("Brand extraction complete!", ""))
        IN Commit(thenHandler(c1, SuccessResult(c1.run)), t)
     \/ \E m \in E.errorMessages : Commit(catchBlock(Start(t), m), t)
  /\ UNCHANGED <<clock, observers>>

(***************************************************************************)
(* Time and session clean-up                                               *)
(***************************************************************************)
\* a millisecond passes (milliseconds are told apart only while a request
\* can still arrive; later, time advances by whole retention periods)
TickMs ==
  /\ clock % CLEANUP_MS < MaxMs
  /\ Len(runs) < MaxRequests
  /\ clock' = clock + 1
  /\ UNCHANGED <<activeSessions, runs, timers, observers, sched>>

\* a retention period passes (followed only while a clean-up is pending)
TickRetention ==
  /\ clock \div CLEANUP_MS < MaxEpochs
  /\ timers # {}
  /\ clock' = clock + CLEANUP_MS
  /\ UNCHANGED <<activeSessions, runs, timers, observers, sched>>

\* a clean-up that does not wait for its delay
CleanupTimeoutEarly ==
  \E timer \in timers :
    /\ activeSessions' = [k \in DOMAIN activeSessions \ {timer.sessionId} |-> activeSessions[k]]
    /\ timers' = timers \ {timer}
    /\ UNCHANGED <<clock, runs, observers, sched>>

\* the setTimeout callback scheduled by the .then handler
CleanupTimeout ==
  \E timer \in timers :
    /\ clock >= timer.due
    /\ activeSessions' = [k \in DOMAIN activeSessions \ {timer.sessionId} |-> activeSessions[k]]
    /\ timers' = timers \ {timer}
    /\ UNCHANGED <<clock, runs, observers, sched>>

(***************************************************************************)
(* GET /api/brands/:id/status, the SSE endpoint                            *)
(***************************************************************************)
UnknownId == -1

RequestableIds == {runs[t].sessionId : t \in 1..Len(runs)} \cup {UnknownId}

\* a registry miss reported in the words of a pipeline failure
notFoundEventAsFailure ==
  [stage |-> "error", message |-> Msg("Extraction failed", "timeout"), progress_percent |-> 0]

notFoundEvent ==
  [stage |-> "error", message |-> Msg("Session not found", ""), progress_percent |-> 0]

\* the handler up to the start of the poll interval
SseConnect ==
  /\ Len(observers) < MaxObservers
  /\ \E id \in RequestableIds :
       observers' = Append(observers,
         IF id \notin DOMAIN activeSessions
         THEN [id |-> id, eventIndex |-> 0, sent |-> <<notFoundEvent>>, phase |-> "ended"]
         ELSE [id |-> id, eventIndex |-> Len(activeSessions[id].events),
               sent |-> activeSessions[id].events, phase |-> "polling"])
  /\ UNCHANGED <<clock, activeSessions, runs, timers, sched>>

\* a poll that sends the new events without advancing its cursor
SsePollNoAdvance(o) ==
  /\ observers[o].phase = "polling"
  /\ LET ob == observers[o]
     IN IF ob.id \notin DOMAIN activeSessions
        THEN observers' = [observers EXCEPT ![o].phase = "ended"]
        ELSE LET currentSession == activeSessions[ob.id]
                 n == Len(currentSession.events)
                 fresh == IF ob.eventIndex < n
                          THEN SubSeq(currentSession.events, ob.eventIndex + 1, n)
                          ELSE <<>>
             IN observers' = [observers EXCEPT
                  ![o].sent = @ \o fresh,
                  ![o].phase = IF currentSession.status \in {"completed", "failed"}
                               THEN "closing" ELSE @]
  /\ UNCHANGED <<clock, activeSessions, runs, timers, sched>>

\* a poll that looks at the status before it sends the new events
SsePollEndsEarly(o) ==
  /\ observers[o].phase = "polling"
  /\ LET ob == observers[o]
     IN IF ob.id \notin DOMAIN activeSessions
        THEN observers' = [observers EXCEPT ![o].phase = "ended"]
        ELSE LET currentSession == activeSessions[ob.id]
                 n == Len(currentSession.events)
                 fresh == IF ob.eventIndex < n
                          THEN SubSeq(currentSession.events, ob.eventIndex + 1, n)
                          ELSE <<>>
             IN IF currentSession.status \in {"completed", "failed"}
                THEN observers' = [observers EXCEPT ![o].phase = "closing"]
                ELSE observers' = [observers EXCEPT
                       ![o].sent = @ \o fresh,
                       ![o].eventIndex = IF ob.eventIndex < n THEN n ELSE @]
  /\ UNCHANGED <<clock, activeSessions, runs, timers, sched>>

\* one firing of the 500 ms poll interval
SsePoll(o) ==
  /\ observers[o].phase = "polling"
  /\ LET ob == observers[o]
     IN IF ob.id \notin DOMAIN activeSessions
        THEN observers' = [observers EXCEPT ![o].phase = "ended"]
        ELSE LET currentSession == activeSessions[ob.id]
                 n == Len(currentSession.events)
                 fresh == IF ob.eventIndex < n
                          THEN SubSeq(currentSession.events, ob.eventIndex + 1, n)
                          ELSE <<>>
             IN observers' = [observers EXCEPT
                  ![o].sent = @ \o fresh,
                  ![o].eventIndex = IF ob.eventIndex < n THEN n ELSE @,
                  ![o].phase = IF currentSession.status \in {"completed", "failed"}
                               THEN "closing" ELSE @]
  /\ UNCHANGED <<clock, activeSessions, runs, timers, sched>>

\* the 2000 ms timeout that ends the response
SseEnd(o) ==
  /\ observers[o].phase = "closing"
  /\ observers' = [observers EXCEPT ![o].phase = "ended"]
  /\ UNCHANGED <<clock, activeSessions, runs, timers, sched>>

\* a close handler that also drops the session the client was watching
SseClientCloseDropsSession(o) ==
  /\ observers[o].phase = "polling"
  /\ observers' = [observers EXCEPT ![o].phase = "disconnected"]
  /\ activeSessions' = [k \in DOMAIN activeSessions \ {observers[o].id} |-> activeSessions[k]]
  /\ UNCHANGED <<clock, runs, timers, sched>>

\* req.on('close'): the client went away
SseClientClose(o) ==
  /\ observers[o].phase = "polling"
  /\ observers' = [observers EXCEPT ![o].phase = "disconnected"]
  /\ UNCHANGED <<clock, activeSessions, runs, timers, sched>>

(***************************************************************************)
(* Ranges of the collaborators' outputs                                    *)
(***************************************************************************)
Dimensions(names, score) ==
  [i \in 1..Len(names) |->
     [name |-> names[i], score |-> score, weight |-> requiredDimensionWeight[names[i]]]]

EvaluationData(score, names, dimScore) ==
  [overall_score |-> score, dimensions |-> Dimensions(names, dimScore)]

\* one extraction, wide ranges
RunEnv ==
  [errorMessages |-> {"timeout", "ENOSPC"},
   durations |-> {0, 4},
   usages |-> {[tokens_input |-> 3, tokens_output |-> 1],
               [tokens_input |-> 5, tokens_output |-> 2]},
   specErrs |-> {{}, {"component_required"}, {"other"}, {"component_required", "other"}},
   tokenWarnings |-> {<<>>, <<"No color data available in brand tokens">>},
   evaluationData |->
     {EvaluationData(3800, DimensionNames, 38),
      EvaluationData(4500, DimensionNames, 45),
      EvaluationData(5000, DimensionNames, 50),
      EvaluationData(Undefined, DimensionNames, 50),
      EvaluationData(Undefined, SubSeq(DimensionNames, 1, 5), 50),
      EvaluationData(NotANumber, DimensionNames, 40),
      EvaluationData(4000, DimensionNames \o <<"brand_fidelity">>, 40)},
   failureUsages |-> {NoUsage, [tokens_input |-> 3, tokens_output |-> 1]},
   refineSaves |-> {"ok", "write_throws", "size_throws"},
   refinedErrs |-> {{}, {"other"}}]

\* concurrent extractions, narrow ranges
ServerEnv ==
  [errorMessages |-> {"timeout"},
   durations |-> {4},
   usages |-> {[tokens_input |-> 3, tokens_output |-> 1]},
   specErrs |-> {{}},
   tokenWarnings |-> {<<>>},
   evaluationData |->
     {EvaluationData(3800, DimensionNames, 38),
      EvaluationData(4500, DimensionNames, 45)},
   failureUsages |-> {NoUsage},
   refineSaves |-> {"ok"},
   refinedErrs |-> {{}, {"other"}}]

(***************************************************************************)
(* Specifications                                                          *)
(***************************************************************************)
Init ==
  /\ clock = 0
  /\ activeSessions = <<>>
  /\ runs = <<>>
  /\ timers = {}
  /\ observers = <<>>
  /\ sched = [last |-> 0, switches |-> 0]

Runs == 1..Len(runs)
Observers == 1..Len(observers)

\* the runs' steps, with the collaborators' outputs drawn from E
Pipeline(E) ==
  \E t \in Runs :
    \/ SetupDone(t, E)
    \/ CaptureDone(t, E)
    \/ AnalyzeDone(t, E)
    \/ SynthesizeDone(t, E)
    \/ EvaluateDone(t, E)
    \/ RefineDone(t, E)
    \/ FinalizeDone(t, E)

PostFirst == Len(runs) = 0 /\ PostExtract

Sse ==
  \E o \in Observers :
    \/ SsePoll(o)
    \/ SseEnd(o)
    \/ SseClientClose(o)

\* the session registry under concurrent extractions, with clean-up
Next ==
  \/ PostExtract
  \/ Pipeline(ServerEnv)
  \/ TickMs
  \/ TickRetention
  \/ CleanupTimeout

Spec == Init /\ [][Next]_vars

\* one extraction request, followed through with wide adapter ranges
NextRun ==
  \/ PostFirst
  \/ Pipeline(RunEnv)

SpecRun == Init /\ [][NextRun]_vars

\* one extraction, its observers and its session's expiry
NextSse ==
  \/ PostFirst
  \/ Pipeline(ServerEnv)
  \/ TickRetention
  \/ CleanupTimeout
  \/ SseConnect
  \/ Sse

SpecSse == Init /\ [][NextSse]_vars

SseConnectFirst == Len(observers) = 0 /\ SseConnect

\* one extraction watched by at most one observer, with time passing and
\* due timers firing
NextLive ==
  \/ PostFirst
  \/ Pipeline(ServerEnv)
  \/ TickRetention
  \/ CleanupTimeout
  \/ SseConnectFirst
  \/ Sse

SpecLive ==
  /\ Init
  /\ [][NextLive]_vars
  /\ WF_vars(TickRetention)
  /\ WF_vars(CleanupTimeout)

(***************************************************************************)
(* Properties of one extraction (SpecRun)                                  *)
(***************************************************************************)
Returned(t) == runs[t].pc = "done"
Succeeded(t) == Returned(t) /\ runs[t].result.success

\* the refinement call was issued: the run awaits it or holds its result
RefineIssued(t) == runs[t].pc = "refine" \/ runs[t].refineResult # NoStage

\* the run got past the evaluation stage and the score log line
Evaluated(t) ==
  /\ runs[t].evaluateResult # NoStage
  /\ runs[t].evaluateResult.status = "success"
  /\ ~ToFixedThrows(runs[t].evaluateResult.data.overall_score)

\* C1: refinement non-regression.  Whenever extractBrand returns success for
\* an evaluation scored below 4.5, the returned brand_spec is either the
\* refined document, and then that document passed validateBrandSpec in a
\* refine stage that reported success, or exactly the document Synthesize
\* returned, whatever the refinement call returned or threw.
C1_RefinementNonRegression ==
  \A t \in Runs :
    (Succeeded(t) /\ LessThan(runs[t].result.evaluation.overall_score, REFINE_THRESHOLD))
    => LET r == runs[t]
           final == r.result.brand_spec
       IN \/ final = r.synthesizeResult.data
          \/ /\ final = r.refineResult.data
             /\ final.source = "refine"
             /\ r.refineResult.status = "success"
             /\ validateBrandSpec(final).valid

\* a successful run below 4.5 that returned the refined document
C1_Witness ==
  \E t \in Runs :
    /\ Succeeded(t)
    /\ LessThan(runs[t].result.evaluation.overall_score, REFINE_THRESHOLD)
    /\ runs[t].result.brand_spec.source = "refine"
    /\ runs[t].result.brand_spec # runs[t].synthesizeResult.data

C3_RefineIffBelowThreshold ==
  \A t \in Runs :
    /\ RefineIssued(t) => Evaluated(t)
    /\ Evaluated(t) =>
         LET r == runs[t]
             score == r.evaluateResult.data.overall_score
         IN /\ RefineIssued(t) <=> LessThan(score, REFINE_THRESHOLD)
            /\ AtLeast(score, REFINE_THRESHOLD) =>
                 /\ Len(r.stages) = 5
                 /\ r.stages[5].name = "refine"
                 /\ r.stages[5].status = "skipped"
                 /\ r.stages[5].duration_ms = 0
                 /\ r.stages[5].metrics.tokens_input = 0
                 /\ r.stages[5].metrics.tokens_output = 0
                 /\ Succeeded(t) => r.result.brand_spec = r.synthesizeResult.data

\* a run scored exactly 4.5 that returned success without a refinement call
C3_Witness ==
  \E t \in Runs :
    /\ Succeeded(t)
    /\ runs[t].evaluateResult.data.overall_score = REFINE_THRESHOLD
    /\ ~RefineIssued(t)
    /\ runs[t].stages[5].status = "skipped"

\* the exception came from saving the trace or the metadata: the run had
\* announced finalize just before it reported the error
FinalizeThrew(t) ==
  LET e == runs[t].emitted
  IN /\ Returned(t)
     /\ Len(e) >= 2
     /\ e[Len(e)].stage = "error"
     /\ e[Len(e) - 1] = [stage |-> "finalize", message |-> Msg("Saving execution trace...", "")]

HasStage(seq, stage) == \E i \in 1..Len(seq) : seq[i].stage = stage

\* C4: a refinement failure is never surfaced as a failure of the
\* extraction.  When the refine stage reports 'failed' the run goes on to
\* finalize; unless saving the trace then throws, extractBrand returns
\* success, the run emits no 'error' progress event, and its session ends
\* with status 'completed' and no 'error' event in its log.
C4_RefineFailureNotSurfaced ==
  \A t \in Runs :
    runs[t].refineResult.status = "failed"
    => /\ runs[t].pc \in {"finalize", "done"}
       /\ runs[t].finalBrandSpec = runs[t].synthesizeResult.data
       /\ (Returned(t) /\ ~FinalizeThrew(t))
            => /\ runs[t].result.success
               /\ ~HasStage(runs[t].emitted, "error")
               /\ runs[t].sessionId \in DOMAIN activeSessions
               /\ activeSessions[runs[t].sessionId].status = "completed"
               /\ ~HasStage(activeSessions[runs[t].sessionId].events, "error")

\* a returned run whose refinement failed and whose session is 'completed'
C4_Witness ==
  \E t \in Runs :
    /\ Succeeded(t)
    /\ runs[t].refineResult.status = "failed"
    /\ activeSessions[runs[t].sessionId].status = "completed"

StageOrder == <<"capture", "analyze", "synthesize", "evaluate", "refine">>

\* the stage result the run holds for the k-th stage (capture's is kept
\* only in the trace)
HeldResult(r, k) ==
  CASE k = 2 -> r.analyzeResult
    [] k = 3 -> r.synthesizeResult
    [] k = 4 -> r.evaluateResult
    [] k = 5 -> r.refineResult
    [] OTHER -> NoStage

\* C5: stage-failure short circuit.  When Capture, Analyze, Synthesize or
\* Evaluate returns status 'failed', the run ends as failed in that very
\* step: the failed entry is the last of the trace, no later stage has a
\* result or a progress event, and the result is a failure.
C5_StageFailureShortCircuit ==
  \A t \in Runs :
    LET r == runs[t]
    IN /\ \A i \in 1..Len(r.stages) : r.stages[i].name = StageOrder[i]
       /\ \A i \in 1..Len(r.stages) :
            (r.stages[i].status = "failed" /\ i <= 4)
            => /\ i = Len(r.stages)
               /\ Returned(t)
               /\ ~r.result.success
               /\ \A k \in (i + 1)..5 :
                    /\ HeldResult(r, k) = NoStage
                    /\ ~HasStage(r.emitted, StageOrder[k])

\* a run that ended at a failed Analyze stage
C5_Witness ==
  \E t \in Runs :
    /\ Len(runs[t].stages) = 2
    /\ runs[t].stages[2].status = "failed"
    /\ Returned(t)

StageLabels ==
  {"Capture stage failed", "Analysis stage failed", "Synthesis stage failed",
   "Evaluation stage failed"}

\* the session of run t is 'failed' and its log has an 'error' event whose
\* message carries the first error message of the trace entry `entry`
FailureReported(t, entry) ==
  /\ runs[t].sessionId \in DOMAIN activeSessions
  /\ LET session == activeSessions[runs[t].sessionId]
     IN /\ session.status = "failed"
        /\ \E i \in 1..Len(session.events), label \in StageLabels :
             /\ session.events[i].stage = "error"
             /\ session.events[i].message =
                  Msg("Extraction failed", label \o ": " \o entry.errors[1].message)

\* C6 as stated: when a stage fails, the session's status becomes 'failed'
\* and an 'error' event carrying the stage's first error message is
\* appended to its log.
C6_AnyStageFailureReported ==
  \A t \in Runs :
    \A i \in 1..Len(runs[t].stages) :
      (Returned(t) /\ runs[t].stages[i].status = "failed")
      => FailureReported(t, runs[t].stages[i])

\* C6, amended: when Capture, Analyze, Synthesize or Evaluate fails, the
\* session's status becomes 'failed' and an 'error' progress event is
\* appended to its log whose message carries the failing stage's first
\* error message.
C6_AbortingStageFailureReported ==
  \A t \in Runs :
    \A i \in 1..Len(runs[t].stages) :
      (runs[t].stages[i].status = "failed" /\ runs[t].stages[i].name # "refine")
      => FailureReported(t, runs[t].stages[i])

\* a session marked 'failed' by a failed Synthesize stage
C6_Witness ==
  \E t \in Runs :
    /\ Len(runs[t].stages) = 3
    /\ runs[t].stages[3].status = "failed"
    /\ activeSessions[runs[t].sessionId].status = "failed"

Terminal(event) == event.stage \in {"complete", "error"}

\* C7: in every session's log a terminal event ('complete' or 'error')
\* appears exactly once when the extraction has ended, and it is the last
\* event of the log.
C7_OneTerminalEventLast ==
  \A sid \in DOMAIN activeSessions :
    LET session == activeSessions[sid]
        n == Len(session.events)
    IN /\ \A i \in 1..n : Terminal(session.events[i]) => i = n
       /\ session.status \in {"completed", "failed"}
            => (n > 0 /\ Terminal(session.events[n]))

(***************************************************************************)
(* Properties of the session registry and its observers                    *)
(***************************************************************************)
\* C8: in every session, at every moment, the progress_percent values of
\* the logged events are within 0..100 and never decrease from one event to
\* the next, with any number of extractions running concurrently.
C8_ProgressMonotone ==
  \A sid \in DOMAIN activeSessions :
    LET events == activeSessions[sid].events
    IN \A i \in 1..Len(events) :
         /\ events[i].progress_percent \in 0..100
         /\ i < Len(events) => events[i].progress_percent <= events[i + 1].progress_percent

\* C9: a session's event log is append-only.  In every step, a session that
\* stays registered keeps its log as a prefix of its log after the step,
\* whichever operation the step is (append, observer read, status change,
\* result hand-off).
C9_AppendOnlyLog ==
  [][\A sid \in DOMAIN activeSessions \cap DOMAIN activeSessions' :
       activeSessions'[sid].request = activeSessions[sid].request
       => IsPrefix(activeSessions[sid].events, activeSessions'[sid].events)]_vars

\* a finished session with a log of several events that an observer has read
C9_Witness ==
  \E sid \in DOMAIN activeSessions, o \in Observers :
    /\ activeSessions[sid].status \in {"completed", "failed"}
    /\ Len(activeSessions[sid].events) >= 4
    /\ observers[o].id = sid
    /\ observers[o].eventIndex >= 4

\* C10: each observer keeps its own cursor.  After every step, what an
\* observer of a registered session has been sent is a prefix of that
\* session's log and its cursor is the number of events sent (log order, no
\* gap, no duplicate); a step of an observer changes neither the registry
\* nor any other observer.
C10_ObserverCursor ==
  [][/\ \A o \in 1..Len(observers') :
          observers'[o].id \in DOMAIN activeSessions'
          => /\ observers'[o].eventIndex = Len(observers'[o].sent)
             /\ IsPrefix(observers'[o].sent, activeSessions'[observers'[o].id].events)
     /\ observers' # observers
          => /\ activeSessions' = activeSessions
             /\ Len(observers') >= Len(observers)
             /\ Cardinality({p \in 1..Len(observers) : observers'[p] # observers[p]})
                  <= (IF Len(observers') > Len(observers) THEN 0 ELSE 1)]_vars

\* two observers of one session at different points of its log, one of
\* which connected after events had been logged and then went away
C10_Witness ==
  \E o1, o2 \in Observers :
    /\ observers[o1].id = observers[o2].id
    /\ observers[o1].id \in DOMAIN activeSessions
    /\ 0 < Len(observers[o1].sent)
    /\ Len(observers[o1].sent) < Len(observers[o2].sent)
    /\ observers[o1].phase = "disconnected"
    /\ observers[o2].phase = "closing"

(***************************************************************************)
(* Properties of the registry under concurrent requests                    *)
(***************************************************************************)
\* C11: any two accepted extraction requests receive distinct session ids,
\* also when they arrive at the same clock instant, so the session
\* registered under a request's id is never one created by a later request.
C11_DistinctSessionIds ==
  \A t1, t2 \in Runs :
    t1 # t2
    => /\ runs[t1].sessionId # runs[t2].sessionId
       /\ runs[t1].sessionId \in DOMAIN activeSessions
            => activeSessions[runs[t1].sessionId].request = t1

\* the events a run has caused, as its own session's log should show them:
\* one per emit, then the final event of the result hand-off
OwnLog(t) ==
  [i \in 1..Len(runs[t].emitted) |->
     [stage |-> runs[t].emitted[i].stage, message |-> runs[t].emitted[i].message]]
  \o (IF Returned(t)
      THEN <<[stage |-> "complete", message |-> finalEvent(runs[t].result).message]>>
      ELSE <<>>)

LoggedAs(events) ==
  [i \in 1..Len(events) |-> [stage |-> events[i].stage, message |-> events[i].message]]

\* C12: with several extractions running concurrently each session has
\* exactly one writer.  The log of a registered session is exactly what the
\* run of the request that created it has emitted; the session is marked
\* finished and handed a result only by that run, and only that run
\* schedules its removal.
C12_SingleWriter ==
  /\ \A sid \in DOMAIN activeSessions :
       LET session == activeSessions[sid]
           t == session.request
       IN /\ LoggedAs(session.events) = OwnLog(t)
          /\ session.status # "processing"
               => (Returned(t) /\ session.result = runs[t].result)
  /\ \A timer \in timers :
       timer.sessionId \in DOMAIN activeSessions
       => activeSessions[timer.sessionId].request = timer.run

C15_RemovedOnlyAfterRetention ==
  [][\A sid \in DOMAIN activeSessions \ DOMAIN activeSessions' :
       LET session == activeSessions[sid]
           n == Len(session.events)
       IN /\ session.status \in {"completed", "failed"}
          /\ Returned(session.request)
          /\ n > 0
          /\ session.events[n].stage = "complete"
          /\ clock >= session.events[n].timestamp + CLEANUP_MS]_vars

\* a finished extraction's session has been removed
C15_Witness ==
  \E t \in Runs :
    /\ Returned(t)
    /\ runs[t].sessionId \notin DOMAIN activeSessions
    /\ clock >= CLEANUP_MS
    /\ timers = {}

\* C16: every session is eventually removed from the registry once its
\* pipeline has terminated, on the success path and on every failure path,
\* whether or not any observer ever connected.
C16_TerminatedSessionRemoved ==
  \A t \in 1..MaxRequests :
    [](t \in Runs /\ Returned(t)
       => <>(t \in Runs /\ runs[t].sessionId \notin DOMAIN activeSessions))

\* the session of a failed extraction that no observer ever read is gone
C16_Witness ==
  \E t \in Runs :
    /\ Returned(t)
    /\ ~runs[t].result.success
    /\ observers = <<>>
    /\ runs[t].sessionId \notin DOMAIN activeSessions

(***************************************************************************)
(* Observers and the pipeline                                              *)
(***************************************************************************)
\* the registered session of every run shows what that run did, and
\* nothing of what observers did: its log is the run's own events and, once
\* the run has returned, its status and result are the run's
SessionFollowsRun ==
  \A t \in Runs :
    runs[t].sessionId \in DOMAIN activeSessions
    => LET session == activeSessions[runs[t].sessionId]
       IN /\ LoggedAs(session.events) = OwnLog(t)
          /\ Returned(t) <=> session.status # "processing"
          /\ Returned(t)
               => /\ session.result = runs[t].result
                  /\ session.status = (IF runs[t].result.success
                                        THEN "completed" ELSE "failed")

\* C17: when an observer disconnects from the progress stream the pipeline
\* task is not cancelled.  A step of an observer (connecting, polling,
\* disconnecting) changes no run, session or timer; after every step the
\* session's log, status and result are what its run alone determines; and
\* a run that has not returned can take its next step whatever the
\* observers' states are.
C17_DisconnectDoesNotCancel ==
  [][/\ observers' # observers
          => (runs' = runs /\ activeSessions' = activeSessions /\ timers' = timers)
     /\ SessionFollowsRun'
     /\ \A t \in Runs : ~Returned(t) => ENABLED Pipeline(ServerEnv)]_vars

\* an observer left before the end, and the session was completed without it
C17_Witness ==
  \E o \in Observers :
    /\ observers[o].phase = "disconnected"
    /\ observers[o].id \in DOMAIN activeSessions
    /\ activeSessions[observers[o].id].status = "completed"
    /\ Len(observers[o].sent) < 3
    /\ Len(activeSessions[observers[o].id].events) >= 10

(***************************************************************************)
(* Schema violations in Synthesize                                         *)
(***************************************************************************)
\* the violations the repair pass of Synthesize cannot remove
Unrepaired(brandTokens) ==
  validateBrandSpec(
    fixValidationIssues(BrandSpecDoc("synthesize", "any", brandTokens.specErrs),
                        brandTokens.specErrs)).errors

ReturnedEvaluations(brandId) ==
  {BuildEvaluation(brandId, ed) : ed \in RunEnv.evaluationData}

\* C19: quality_band is a pure function of overall_score.  The evaluation a
\* run holds and any evaluation Evaluate can return with the same
\* overall_score have the same quality_band, whether or not the repair pass
\* computed the score.
C19_BandIsFunctionOfScore ==
  \A t \in Runs :
    (runs[t].evaluateResult # NoStage /\ runs[t].evaluateResult.status = "success")
    => \A other \in ReturnedEvaluations(runs[t].brand_id) :
         other.overall_score = runs[t].evaluateResult.data.overall_score
         => other.quality_band = runs[t].evaluateResult.data.quality_band

(***************************************************************************)
(* The band thresholds                                                     *)
(***************************************************************************)
\* the rubric's scale, 1.0 to 5.0, in thousandths: every hundredth of the
\* scale and the thousandths next to each threshold
RubricScores ==
  {10 * k : k \in 100..500}
  \cup {2499, 2501, 3499, 3501, 4499, 4501}

\* one extraction whose evaluation reports any score of the rubric's scale
BandEnv ==
  [ServerEnv EXCEPT
     !.evaluationData = {EvaluationData(s, DimensionNames, 30) : s \in RubricScores}]

NextBand ==
  \/ PostFirst
  \/ Pipeline(BandEnv)

SpecBand == Init /\ [][NextBand]_vars

\* the band the thresholds 4.5, 3.5 and 2.5 give a score
BandByThresholds(s) ==
  CASE s >= 4500 -> "excellent"
    [] s >= 3500 /\ s < 4500 -> "good"
    [] s >= 2500 /\ s < 3500 -> "acceptable"
    [] s < 2500 -> "poor"

EntryTokens(entry) ==
  IF entry.name \in {"analyze", "evaluate", "refine"}
  THEN entry.metrics.tokens_input + entry.metrics.tokens_output
  ELSE 0

\* C21: on every successful run summary.total_tokens is the sum of
\* tokens_input + tokens_output over the trace entries of Analyze, Evaluate
\* and Refine; an executed refinement counts with what it reported, also
\* when it failed, and a skipped refinement counts zero.
C21_TotalTokens ==
  \A t \in Runs :
    Succeeded(t)
    => LET trace == runs[t].result.execution_trace
           refine == trace.stages[5]
       IN /\ trace.summary.total_tokens
               = SumSeq([i \in 1..Len(trace.stages) |-> EntryTokens(trace.stages[i])])
          /\ refine.name = "refine"
          /\ refine.status = "skipped" => EntryTokens(refine) = 0
          /\ refine.status # "skipped"
               => /\ runs[t].refineResult # NoStage
                  /\ refine.metrics = runs[t].refineResult.metrics

\* a successful run whose refinement failed after the model had replied
C21_Witness ==
  \E t \in Runs :
    /\ Succeeded(t)
    /\ runs[t].refineResult.status = "failed"
    /\ runs[t].result.execution_trace.stages[5].metrics.tokens_input > 0
    /\ runs[t].result.execution_trace.summary.total_tokens
         > TokensOf(runs[t].analyzeResult) + TokensOf(runs[t].evaluateResult)

(***************************************************************************)
(* The percent of a progress event                                         *)
(***************************************************************************)
\* C22: the progress_percent of a progress event is derived from its stage
\* name alone through the fixed table.  Every event a session logged for a
\* stage name of the table carries the percent the table assigns to that
\* name, and two events logged for the same stage name carry the same
\* percent.
C22_PercentFromStageName ==
  \A sid \in DOMAIN activeSessions :
    LET events == activeSessions[sid].events
    IN \A i \in 1..Len(events) :
         /\ events[i].stage \in DOMAIN stageProgress
              => events[i].progress_percent = stageProgress[events[i].stage]
         /\ \A j \in 1..Len(events) :
              events[j].stage = events[i].stage
              => events[j].progress_percent = events[i].progress_percent

(***************************************************************************)
(* What an error carries                                                   *)
(***************************************************************************)
\* the fields that hold specification, evaluation or trace data
DataFields == {"brand_spec", "evaluation", "refinement", "execution_trace"}

\* an 'error' event with a message and no data
BareError(event) ==
  /\ event.message.text # ""
  /\ DOMAIN event \cap DataFields = {}
  /\ "brand_id" \in DOMAIN event => event.brand_id = "undefined"

\* C23: an event with stage 'error' always carries a non-empty message and
\* never specification, evaluation or trace data, in a session's log and in
\* what an observer was sent; the result of a failed run, as returned and as
\* recorded in its session, holds the error message only, never a
\* brand_spec.
C23_ErrorsCarryNoData ==
  /\ \A sid \in DOMAIN activeSessions :
       LET session == activeSessions[sid]
       IN /\ \A i \in 1..Len(session.events) :
               session.events[i].stage = "error" => BareError(session.events[i])
          /\ session.status = "failed"
               => /\ DOMAIN session.result = {"success", "error"}
                  /\ ~session.result.success
  /\ \A o \in Observers :
       \A i \in 1..Len(observers[o].sent) :
         observers[o].sent[i].stage = "error" => BareError(observers[o].sent[i])
  /\ \A t \in Runs :
       (Returned(t) /\ ~runs[t].result.success)
       => DOMAIN runs[t].result = {"success", "error"}

\* an observer was sent the 'error' event of a run whose session is failed
C23_Witness ==
  \E o \in Observers :
    /\ observers[o].id \in DOMAIN activeSessions
    /\ activeSessions[observers[o].id].status = "failed"
    /\ activeSessions[observers[o].id].result.error # ""
    /\ \E i \in 1..Len(observers[o].sent) :
         /\ observers[o].sent[i].stage = "error"
         /\ observers[o].sent[i].message.text = "Extraction failed"

(***************************************************************************)
(* The order of the stage calls                                            *)
(***************************************************************************)
\* the position in StageOrder of the stage call a run awaits, 0 when it
\* awaits none
AwaitedStage(r) ==
  IF \E k \in 1..Len(StageOrder) : StageOrder[k] = r.pc
  THEN CHOOSE k \in 1..Len(StageOrder) : StageOrder[k] = r.pc
  ELSE 0

\* the trace of every run lists the stages reached in the fixed order, the
\* awaited call is the successor of the last entry, and no entry but the
\* last is failed
StagesInOrder ==
  \A t \in Runs :
    LET r == runs[t]
        n == Len(r.stages)
    IN /\ IsPrefix([i \in 1..n |-> r.stages[i].name], StageOrder)
       /\ \A i \in 1..n : r.stages[i].status = "failed" => i = n
       /\ r.pc = "setup" => n = 0
       /\ AwaitedStage(r) > 0
            => /\ n = AwaitedStage(r) - 1
               /\ \A i \in 1..n : r.stages[i].status # "failed"
       /\ (r.pc = "finalize" \/ Succeeded(t))
            => /\ n = 5
               /\ r.stages[5].status \in {"success", "failed", "skipped"}
               /\ r.stages[5].status = "skipped" <=> r.refineResult = NoStage
               /\ \A i \in 1..4 : r.stages[i].status \in {"success", "warning"}

\* C24: the stage calls happen in the fixed order capture, analyze,
\* synthesize, evaluate, refine, each at most once and each only after its
\* predecessor returned a non-failed status.  After every step the trace
\* holds one entry per stage reached, in that order, with exactly five
\* entries on success; the return of a stage call adds that stage's entry
\* (and with it the 'skipped' entry when refinement is skipped) and rewrites
\* none, and the call awaited next is the successor of the one awaited before.
C24_FixedStageOrder ==
  [][/\ StagesInOrder'
     /\ \A t \in Runs :
          /\ IsPrefix(runs[t].stages, runs'[t].stages)
          /\ Len(runs'[t].stages) <= Len(runs[t].stages) + 2
          /\ Len(runs'[t].stages) = Len(runs[t].stages) + 2
               => runs'[t].stages[Len(runs'[t].stages)] = SkippedRefineEntry
          /\ AwaitedStage(runs'[t]) # 0
               => \/ runs'[t].pc = runs[t].pc
                  \/ AwaitedStage(runs'[t]) = AwaitedStage(runs[t]) + 1]_vars

\* a successful run with five entries, the refinement executed
C24_Witness ==
  \E t \in Runs :
    /\ Succeeded(t)
    /\ [i \in 1..Len(runs[t].stages) |-> runs[t].stages[i].name] = StageOrder
    /\ runs[t].stages[5].status = "success"
    /\ runs[t].result.execution_trace.stages = runs[t].stages

(***************************************************************************)
(* Synthesize validates at most twice                                      *)
(***************************************************************************)
\* C25: one Synthesize call validates the specification, applies at most
\* one repair pass and re-validates at most once.  For every brand tokens
\* and whether or not saving throws the call has a result, made with one
\* validation when the first validation passes and with two otherwise,
\* whether or not the repair made the document valid; every run that
\* awaits Synthesize can take its result, and the result a run holds was
\* made with at most two validations.
C25_AtMostTwoValidations ==
  /\ \A bt \in BrandTokens(RunEnv), sf \in BOOLEAN :
       LET res == synthesizeBrandSpec("any", bt, sf, 0, "timeout")
       IN /\ res.status \in {"success", "warning", "failed"}
          /\ res.validations = (IF bt.specErrs = {} THEN 1 ELSE 2)
  /\ \A t \in Runs :
       /\ runs[t].pc = "synthesize"
            => SynthesizeResults(RunEnv, runs[t].brand_id, runs[t].analyzeResult.data) # {}
       /\ runs[t].synthesizeResult # NoStage
            => /\ runs[t].synthesizeResult.validations \in {1, 2}
               /\ runs[t].synthesizeResult.validations = 2
                    <=> runs[t].analyzeResult.data.specErrs # {}

\* a run went on after two validations, the second of which still failed
C25_Witness ==
  \E t \in Runs :
    /\ runs[t].synthesizeResult # NoStage
    /\ runs[t].synthesizeResult.validations = 2
    /\ runs[t].synthesizeResult.status = "warning"
    /\ runs[t].synthesizeResult.data.errs = {"other"}
    /\ runs[t].pc = "evaluate"

(***************************************************************************)
(* The dimensions of an evaluation                                         *)
(***************************************************************************)
\* the dimensions are the six of the rubric, each once
SixDimensions(dimensions) ==
  /\ Len(dimensions) = Len(DimensionNames)
  /\ \A k \in 1..Len(DimensionNames) :
       \E i \in 1..Len(dimensions) :
         /\ dimensions[i].name = DimensionNames[k]
         /\ \A j \in 1..Len(dimensions) : dimensions[j].name = DimensionNames[k] => j = i

\* C26: every evaluation a successful Evaluate stage returned holds exactly
\* the six rubric dimensions, each once, whatever number of dimensions the
\* evaluation model's reply had.
C26_ExactlySixDimensions ==
  \A t \in Runs :
    (runs[t].evaluateResult # NoStage /\ runs[t].evaluateResult.status = "success")
    => SixDimensions(runs[t].evaluateResult.data.dimensions)

(***************************************************************************)
(* extractBrand always returns                                             *)
(***************************************************************************)
\* one extraction whose awaited calls all return
SpecReturns == Init /\ [][NextLive]_vars /\ WF_vars(Pipeline(ServerEnv))

\* run t returned a result to the .then handler, which closed its session:
\* the status is final, the log ends with the final event, the result is
\* recorded and the clean-up is scheduled
ClosedByThen(t) ==
  /\ t \in Runs
  /\ Returned(t)
  /\ runs[t].result.success \in BOOLEAN
  /\ runs[t].sessionId \in DOMAIN activeSessions
  /\ LET session == activeSessions[runs[t].sessionId]
         n == Len(session.events)
     IN /\ session.status = (IF runs[t].result.success THEN "completed" ELSE "failed")
        /\ session.result = runs[t].result
        /\ n > 0
        /\ session.events[n].stage = "complete"
        /\ \E timer \in timers : timer.sessionId = runs[t].sessionId

\* C27: extractBrand never rejects.  Every started extraction whose awaited
\* calls return eventually returns a result to the .then handler, which
\* puts its session into status 'completed' or 'failed' with a final event
\* and schedules the clean-up; no session is ever left as the rejection
\* handler would leave it, 'failed' without a final event.
C27_ExtractBrandNeverRejects ==
  /\ \A t \in 1..MaxRequests : (t \in Runs /\ ~Returned(t)) ~> ClosedByThen(t)
  /\ [](\A sid \in DOMAIN activeSessions :
          LET session == activeSessions[sid]
          IN session.status # "processing"
             => /\ Len(session.events) > 0
                /\ session.events[Len(session.events)].stage = "complete"
                /\ session.result # NoResult)

\* an exception while finalizing became a returned failure
C27_Witness ==
  \E t \in Runs :
    /\ ClosedByThen(t)
    /\ FinalizeThrew(t)
    /\ runs[t].result = FailureResult("timeout")

(***************************************************************************)
(* The persisted brand_spec.json                                           *)
(***************************************************************************)
\* C28: at the end of every successful run the brand_spec.json persisted
\* for the brand is the document returned to the caller: the refined
\* document when the refine stage returned success, and Synthesize's output
\* when refinement was skipped or failed.
C28_PersistedIsReturned ==
  \A t \in Runs :
    Succeeded(t)
    => /\ runs[t].brandSpecFile = runs[t].result.brand_spec
       /\ runs[t].result.brand_spec =
            (IF runs[t].refineResult.status = "success"
             THEN runs[t].refineResult.data
             ELSE runs[t].synthesizeResult.data)

(***************************************************************************)
(* The status of Synthesize                                                *)
(***************************************************************************)
\* the warnings of a Synthesize call on brand tokens: those of the token
\* conversion, then one for a failed first validation
ExpectedWarnings(brandTokens) ==
  brandTokens.warnings \o
    (IF brandTokens.specErrs = {} THEN <<>> ELSE <<"Schema validation issues">>)

PollDue(o) ==
  /\ observers[o].phase = "polling"
  /\ observers[o].id \in DOMAIN activeSessions
  /\ observers[o].eventIndex < Len(activeSessions[observers[o].id].events)

\* Timers fire in the order they are due: the 500 ms poll that will deliver
\* a terminated session's last events fires before the retention period of
\* that session has passed.
TickRetentionAfterPolls ==
  /\ \A o \in Observers : ~PollDue(o)
  /\ TickRetention

\* one extraction and its observers, the polls and stream ends firing
NextStream ==
  \/ PostFirst
  \/ Pipeline(ServerEnv)
  \/ TickRetentionAfterPolls
  \/ CleanupTimeout
  \/ SseConnect
  \/ Sse

SpecStream ==
  /\ Init
  /\ [][NextStream]_vars
  /\ \A o \in 1..MaxObservers :
       /\ WF_vars(o \in Observers /\ SsePoll(o))
       /\ WF_vars(o \in Observers /\ SseEnd(o))

\* observer o was sent the whole log of the run it watched, the final event
\* included
SentWholeLog(o) ==
  \E t \in Runs :
    /\ runs[t].sessionId = observers[o].id
    /\ Returned(t)
    /\ LoggedAs(observers[o].sent) = OwnLog(t)
    /\ observers[o].sent[Len(observers[o].sent)].stage = "complete"

\* the session observer o watches is registered and completed or failed
WatchesTerminated(o) ==
  /\ o \in Observers
  /\ observers[o].phase = "polling"
  /\ observers[o].id \in DOMAIN activeSessions
  /\ activeSessions[observers[o].id].status \in {"completed", "failed"}

\* C30: the server ends an observer's stream for a live session only after
\* it has written to that observer every event of the log up to and
\* including the final event.  An observer whose stream the server is
\* closing or has ended, other than one told that the session was not
\* found, was sent the whole log; and an observer still connected when its
\* session is completed or failed eventually has its stream ended, unless
\* it disconnects itself.
C30_StreamEndsAfterFinalEvent ==
  /\ [](\A o \in Observers :
          (observers[o].phase \in {"closing", "ended"}
           /\ observers[o].sent # <<notFoundEvent>>)
          => SentWholeLog(o))
  /\ \A o \in 1..MaxObservers :
       WatchesTerminated(o)
       ~> (o \in Observers /\ observers[o].phase \in {"ended", "disconnected"})

\* an observer connected before the end had its stream ended by the server
\* after the session's expiry, with the whole log sent
C30_Witness ==
  \E o \in Observers :
    /\ observers[o].phase = "ended"
    /\ SentWholeLog(o)
    /\ Len(observers[o].sent) > 3
    /\ observers[o].id \notin DOMAIN activeSessions

====
